---------------------------- MODULE Spec2Model ----------------------------
(***************************************************************************)
(* A model of CFLPytorch/EfficientCFL.py: the inverted-residual block       *)
(* (MBConvBlock), the backbone with its multi-scale decoder (EfficientNet), *)
(* and the class methods that build a backbone from a model name.           *)
(*                                                                         *)
(* Tensors are modelled by their shapes [n, c, h, w] together with the      *)
(* provenance of their values (input, stored parameters, and the weights    *)
(* of layers created during the call).  The helpers imported from .utils    *)
(* (round_filters, round_repeats, get_same_padding_conv2d, the parameter    *)
(* table, the two Swish classes) are not part of the source file; they are  *)
(* modelled from their described contracts.  Batch normalisation and the    *)
(* activation keep a tensor's shape and are folded into the convolution     *)
(* they follow; conv_type selects the kernel variant and has no bearing on  *)
(* shapes.                                                                  *)
(*                                                                         *)
(* The parts of the file are independent of each other, and each has its    *)
(* own specification: SpecNames (the class methods), SpecBlock and          *)
(* SpecBlockSe (one MBConvBlock), SpecBuild (EfficientNet.__init__),        *)
(* SpecForward (forward passes of backbones of several depths) and          *)
(* SpecSwish (forward passes and activation-mode switches of the b0         *)
(* backbone).                                                               *)
(***************************************************************************)
EXTENDS Integers, Sequences, FiniteSets, TLC

VARIABLES
    call,          \* the last class-method invocation and what it did
    blk,           \* an MBConvBlock under direct use, and its last forward result
    blocks_args,   \* the caller's block list handed to EfficientNet.__init__
    global_params, \* the caller's GlobalParams handed to EfficientNet.__init__
    net,           \* the EfficientNet instance (NoNet before construction)
    fwd,           \* the frame of the running / last extract_features call
    outB,          \* result of the latest forward completed before the last set_swish
    directCalls    \* number of MBConvBlock.set_swish calls made directly on a block

vars == <<call, blk, blocks_args, global_params, net, fwd, outB, directCalls>>

----------------------------------------------------------------------------
(* Bounds of the model *)

MaxFilters == 3      \* block filter counts drawn from 1..MaxFilters
MaxSize == 4         \* block input heights / widths drawn from 1..MaxSize
MaxSeNum == 5        \* se_ratio numerators (quarters) drawn up to MaxSeNum
MaxStages == 2       \* length of the block lists handed to the constructor
MaxRepeat == 3       \* num_repeat of a stage drawn from 1..MaxRepeat
MaxScale == 4        \* forward input sizes 16*k, k in 1..MaxScale (plus 224)
MaxDirect == 1       \* cap on direct MBConvBlock.set_swish calls
MaxSuffix == 2       \* length of the digit suffix of a model name

----------------------------------------------------------------------------
(* Arithmetic helpers *)

Max(a, b) == IF a >= b THEN a ELSE b

CeilDiv(a, b) == (a + b - 1) \div b

None == <<>>

----------------------------------------------------------------------------
(* Helpers imported from .utils, modelled from their contracts.            *)
(* Optional values are None (the empty tuple) or a 1-tuple <<v>>;          *)
(* fractional values are pairs <<numerator, denominator>>.                 *)

IsSet(v) == v # None

\* Truthiness of an optional fraction, as in `if drop_connect_rate:`
Truthy(v) == IsSet(v) /\ v[1] # 0

\* round_filters(filters, global_params): scale by the width coefficient and
\* round to the nearest multiple of depth_divisor, never below 90% of the
\* scaled value; unchanged when no coefficient is set.
round_filters(filters, gp) ==
    IF ~IsSet(gp.width_coefficient) THEN filters
    ELSE LET num == filters * gp.width_coefficient[1]
             den == gp.width_coefficient[2]
             divisor == gp.depth_divisor
             half == divisor \div 2
             new_filters == Max(divisor,
                                (((num + half * den) \div den) \div divisor) * divisor)
         IN  IF 10 * new_filters * den < 9 * num
             THEN new_filters + divisor
             ELSE new_filters

\* round_repeats(repeats, global_params): scale by the depth coefficient and
\* round up, at least 1; unchanged when no coefficient is set.
round_repeats(repeats, gp) ==
    IF ~IsSet(gp.depth_coefficient) THEN repeats
    ELSE Max(1, CeilDiv(repeats * gp.depth_coefficient[1], gp.depth_coefficient[2]))

\* Total "same" padding along one axis for an axis of length ih.
SamePad(ih, k, s) == Max((CeilDiv(ih, s) - 1) * s + (k - 1) + 1 - ih, 0)

\* Output length of the padding-aware convolution along one axis of length
\* size: the static variant pads for image_size, the dynamic one (image_size
\* None) pads for the actual input.
ConvOutSize(size, k, s, image_size) ==
    LET ih == IF IsSet(image_size) THEN image_size[1] ELSE size
    IN  (size + SamePad(ih, k, s) - k) \div s + 1

\* A tensor in flight: err = "" and a shape, or an error and the last shape.
Ok(shape) == [err |-> "", shape |-> shape]

Fail(t, e) == [t EXCEPT !.err = e]

\* Conv2d(in_channels, out_channels, kernel_size, stride) applied to t.
Conv2d(t, in_channels, out_channels, k, s, image_size) ==
    IF t.err # "" THEN t
    ELSE IF t.shape.c # in_channels THEN Fail(t, "channel-mismatch")
    ELSE LET h == ConvOutSize(t.shape.h, k, s, image_size)
             w == ConvOutSize(t.shape.w, k, s, image_size)
         IN  IF h < 1 \/ w < 1 THEN Fail(t, "kernel-larger-than-input")
             ELSE Ok([n |-> t.shape.n, c |-> out_channels, h |-> h, w |-> w])

\* F.interpolate(t, scale_factor=2)
Interpolate2x(t) ==
    IF t.err # "" THEN t
    ELSE Ok([t.shape EXCEPT !.h = 2 * t.shape.h, !.w = 2 * t.shape.w])

\* torch.cat(ts, dim=1): every dimension but the channels must agree.
SameButChannels(a, b) == a.n = b.n /\ a.h = b.h /\ a.w = b.w

Cat2(a, b) ==
    IF a.err # "" THEN a
    ELSE IF ~SameButChannels(a.shape, b.shape) THEN Fail(a, "shape-mismatch")
    ELSE Ok([a.shape EXCEPT !.c = a.shape.c + b.shape.c])

Cat3(a, b, c) == Cat2(Cat2(a, b), c)

----------------------------------------------------------------------------
(* MBConvBlock *)

\* line 34: has_se
HasSe(block_args) ==
    /\ IsSet(block_args.se_ratio)
    /\ 0 < block_args.se_ratio[1]
    /\ block_args.se_ratio[1] <= block_args.se_ratio[2]

\* Python's round(p / d) for p >= 0: round half to even.
RoundHalfEven(p, d) ==
    LET q == p \div d
        r == p % d
    IN  IF 2 * r < d THEN q
        ELSE IF 2 * r > d THEN q + 1
        ELSE IF q % 2 = 0 THEN q ELSE q + 1

\* Python's int(p / d) for p >= 0: truncation.
Trunc(p, d) == p \div d

\* The squeezed channel count with round() in place of int().
NumSqueezedChannelsRound(block_args) ==
    Max(1, RoundHalfEven(block_args.input_filters * block_args.se_ratio[1],
                         block_args.se_ratio[2]))

\* line 58: max(1, int(input_filters * se_ratio))
NumSqueezedChannels(block_args) ==
    Max(1, Trunc(block_args.input_filters * block_args.se_ratio[1],
                 block_args.se_ratio[2]))

\* MBConvBlock.__init__(block_args, global_params, conv_type)
MBConvBlockInit(block_args, gp) ==
    LET oup == block_args.input_filters * block_args.expand_ratio
        has_se == HasSe(block_args)
    IN  [ block_args |-> block_args,
          image_size |-> gp.image_size,
          has_se     |-> has_se,
          id_skip    |-> block_args.id_skip,
          has_expand |-> block_args.expand_ratio # 1,
          inp        |-> block_args.input_filters,
          oup        |-> oup,
          se_reduce  |-> IF has_se
                         THEN <<[in_channels  |-> oup,
                                 out_channels |-> NumSqueezedChannels(block_args)]>>
                         ELSE None,
          se_expand  |-> IF has_se
                         THEN <<[in_channels  |-> NumSqueezedChannels(block_args),
                                 out_channels |-> oup]>>
                         ELSE None,
          final_oup  |-> block_args.output_filters,
          swish      |-> "MemoryEfficientSwish" ]

\* MBConvBlock.set_swish(memory_efficient)
MBConvBlockSetSwish(block, memory_efficient) ==
    [block EXCEPT !.swish = IF memory_efficient THEN "MemoryEfficientSwish"
                            ELSE "Swish"]

\* One step of MBConvBlock.forward: r is [t, ops], the tensor in flight and
\* the operations applied so far.
Step(r, t, op) == IF r.t.err # "" THEN r
                  ELSE [t |-> t, ops |-> IF t.err = "" THEN Append(r.ops, op) ELSE r.ops]

\* x + inputs (line 94)
AddInputs(x, inputs) ==
    IF x.err # "" THEN x
    ELSE IF x.shape # inputs THEN Fail(x, "shape-mismatch")
    ELSE x

SkipEligible(block) ==
    /\ block.id_skip
    /\ block.block_args.stride = 1
    /\ block.block_args.input_filters = block.block_args.output_filters

\* The skip test with the stride condition dropped.
SkipBranchNoStrideTest(block, r, inputs, drop_connect_rate) ==
    IF block.id_skip
       /\ block.block_args.input_filters = block.block_args.output_filters
    THEN LET g == IF Truthy(drop_connect_rate) THEN Step(r, r.t, "drop_connect") ELSE r
         IN  Step(g, AddInputs(g.t, inputs), "add_inputs")
    ELSE r

\* lines 90-95: skip connection and drop connect
SkipBranch(block, r, inputs, drop_connect_rate) ==
    IF SkipEligible(block)
    THEN LET g == IF Truthy(drop_connect_rate) THEN Step(r, r.t, "drop_connect") ELSE r
         IN  Step(g, AddInputs(g.t, inputs), "add_inputs")
    ELSE r

\* The depthwise convolution built with stride 1 whatever the block's stride.
DepthwiseConvUnitStride(block, t) ==
    Conv2d(t, block.oup, block.oup, block.block_args.kernel_size, 1, block.image_size)

\* lines 51-53, 79: the depthwise convolution
DepthwiseConv(block, t) ==
    Conv2d(t, block.oup, block.oup, block.block_args.kernel_size,
           block.block_args.stride, block.image_size)

\* MBConvBlock.forward(inputs, drop_connect_rate): inputs is a shape.
MBConvBlockForward(block, inputs, drop_connect_rate) ==
    LET I  == block.image_size
        r0 == [t |-> Ok(inputs), ops |-> <<>>]
        r1 == IF block.has_expand
              THEN Step(r0, Conv2d(r0.t, block.inp, block.oup, 1, 1, I), "expand_conv")
              ELSE r0
        r2 == Step(r1, DepthwiseConv(block, r1.t), "depthwise_conv")
        \* the squeeze-excite path pools to 1x1, reduces, expands, and gates x:
        \* the gate has x's channel count and broadcasts over x's positions
        sq == Conv2d(Ok([r2.t.shape EXCEPT !.h = 1, !.w = 1]),
                     block.se_reduce[1].in_channels,
                     block.se_reduce[1].out_channels, 1, 1, I)
        ex == Conv2d(sq, block.se_expand[1].in_channels,
                     block.se_expand[1].out_channels, 1, 1, I)
        r3 == IF block.has_se /\ r2.t.err = ""
              THEN Step(r2, IF ex.err # "" THEN Fail(r2.t, ex.err)
                            ELSE IF ex.shape.c # r2.t.shape.c
                                 THEN Fail(r2.t, "shape-mismatch")
                                 ELSE r2.t,
                        "squeeze_excite")
              ELSE r2
        r4 == Step(r3, Conv2d(r3.t, block.oup, block.final_oup, 1, 1, I), "project_conv")
    IN  SkipBranch(block, r4, inputs, drop_connect_rate)

----------------------------------------------------------------------------
(* Records handed to the constructors *)

\* GlobalParams(width_coefficient, depth_coefficient, image_size,
\*              drop_connect_rate), with the depth divisor of 8
GlobalParams(width, depth, image_size, drop_connect_rate) ==
    [ width_coefficient |-> width,
      depth_coefficient |-> depth,
      image_size        |-> image_size,
      drop_connect_rate |-> drop_connect_rate,
      depth_divisor     |-> 8 ]

\* BlockArgs(num_repeat, kernel_size, stride, expand_ratio, input_filters,
\*           output_filters, se_ratio, id_skip)
BlockArgs(r, k, s, e, i, o, se, id_skip) ==
    [ num_repeat     |-> r,
      kernel_size    |-> k,
      stride         |-> s,
      expand_ratio   |-> e,
      input_filters  |-> i,
      output_filters |-> o,
      se_ratio       |-> se,
      id_skip        |-> id_skip ]

\* Values the variables hold while the part of the program they belong to
\* is not in use.
NoCall == [entry |-> "none"]
NoBlk == [phase |-> "off"]
NoNet == [built |-> FALSE]
NoFwd == [ pc |-> "idle", inputs |-> None, x |-> None, skipconnection |-> <<>>,
           index |-> 0, idx |-> 0, writes |-> <<>>, reads |-> <<>>, cats |-> <<>>,
           d |-> None, likelihood |-> None, modes |-> {}, rng |-> None,
           err |-> "", output |-> None ]
NoOut == [set |-> FALSE]

----------------------------------------------------------------------------
(* Direct use of one MBConvBlock *)

KernelSizes == {1, 3, 5}
Strides == {1, 2}
ExpandRatios == {1, 6}
ImageSizes == {None, <<224>>, <<7>>}
SeRatiosAll == {None} \cup {<<n, 4>> : n \in (0 - 1)..MaxSeNum}
SeRatiosFew == {None, <<1, 4>>}
DropRates == {None, <<0, 10>>, <<2, 10>>}

BlockArgsOver(seRatios) ==
    { BlockArgs(1, k, s, e, i, o, se, id_skip) :
        k \in KernelSizes, s \in Strides, e \in ExpandRatios,
        i \in 1..MaxFilters, o \in 1..MaxFilters, se \in seRatios,
        id_skip \in BOOLEAN }

RestIdleBut(which) ==
    /\ which = "call" \/ call = NoCall
    /\ which = "blk" \/ blk = NoBlk
    /\ which \in {"build", "net"} \/ (blocks_args = <<>> /\ global_params = None)
    /\ which \in {"build", "net"} \/ net = NoNet
    /\ which = "net" \/ fwd = NoFwd
    /\ outB = NoOut /\ directCalls = 0

InitBlockOver(seRatios) ==
    /\ \E a \in BlockArgsOver(seRatios), im \in ImageSizes :
          blk = [phase |-> "args", block_args |-> a,
                 global_params |-> GlobalParams(None, None, im, None)]
    /\ RestIdleBut("blk")

\* block = MBConvBlock(block_args, global_params, conv_type)
BlkConstruct ==
    /\ blk.phase = "args"
    /\ blk' = [phase |-> "built",
               block |-> MBConvBlockInit(blk.block_args, blk.global_params)]
    /\ UNCHANGED <<call, blocks_args, global_params, net, fwd, outB, directCalls>>

\* block(inputs, drop_connect_rate=rate)
BlkForward ==
    /\ blk.phase = "built"
    /\ \E c \in {blk.block.inp, blk.block.inp + 1},
          h \in 1..MaxSize, w \in 1..MaxSize, rate \in DropRates :
          LET inputs == [n |-> 1, c |-> c, h |-> h, w |-> w]
          IN  blk' = [phase  |-> "ran",
                      block  |-> blk.block,
                      inputs |-> inputs,
                      rate   |-> rate,
                      result |-> MBConvBlockForward(blk.block, inputs, rate)]
    /\ UNCHANGED <<call, blocks_args, global_params, net, fwd, outB, directCalls>>

InitBlock == InitBlockOver(SeRatiosFew)

NextBlock == BlkConstruct \/ BlkForward

SpecBlock == InitBlock /\ [][NextBlock]_vars

InitBlockSe == InitBlockOver(SeRatiosAll)

NextBlockSe == BlkConstruct

SpecBlockSe == InitBlockSe /\ [][NextBlockSe]_vars

----------------------------------------------------------------------------
(* Claims about one MBConvBlock *)

Ran == blk.phase = "ran"

RanOnOwnChannels == Ran /\ blk.inputs.c = blk.block.block_args.input_filters

Returned == Ran /\ blk.result.t.err = ""

LastOps(n) == SubSeq(blk.result.ops, Len(blk.result.ops) - n + 1, Len(blk.result.ops))

Has(op) == \E j \in 1..Len(blk.result.ops) : blk.result.ops[j] = op

ArgsEligible ==
    /\ blk.block.block_args.id_skip
    /\ blk.block.block_args.stride = 1
    /\ blk.block.block_args.input_filters = blk.block.block_args.output_filters

CeilShape ==
    [ n |-> blk.inputs.n,
      c |-> blk.block.block_args.output_filters,
      h |-> CeilDiv(blk.inputs.h, blk.block.block_args.stride),
      w |-> CeilDiv(blk.inputs.w, blk.block.block_args.stride) ]

\* The padding in use is the padding the actual input calls for: it is
\* computed per call, or for an image size with the input's residues modulo
\* the stride.
PadsForInput ==
    \/ ~IsSet(blk.block.image_size)
    \/ /\ blk.block.image_size[1] % blk.block.block_args.stride
             = blk.inputs.h % blk.block.block_args.stride
       /\ blk.block.image_size[1] % blk.block.block_args.stride
             = blk.inputs.w % blk.block.block_args.stride

\* C6 (as stated): a block of stride s applied to input_filters channels at
\* H x W returns output_filters channels at ceil(H/s) x ceil(W/s), whatever
\* its kernel size, expand ratio and squeeze-excite setting.
C6_AnyInputCeil ==
    RanOnOwnChannels =>
        /\ blk.result.t.err = ""
        /\ blk.result.t.shape = CeilShape

\* C6 (amended): the same whenever the padding in use is the padding the
\* input calls for (dynamic padding, or static padding for an image size
\* congruent to H and W modulo s, which always is so for stride 1); and the
\* block with expand_ratio 1, stride 1, equal filters and skip enabled
\* returns exactly the input's shape.
C6_CeilWhenPaddedForInput ==
    /\ (RanOnOwnChannels /\ PadsForInput) =>
          /\ blk.result.t.err = ""
          /\ blk.result.t.shape = CeilShape
    /\ (RanOnOwnChannels /\ ArgsEligible /\ blk.block.block_args.expand_ratio = 1) =>
          /\ blk.result.t.err = ""
          /\ blk.result.t.shape = blk.inputs

C6_Witness ==
    /\ RanOnOwnChannels
    /\ blk.block.block_args.stride = 2
    /\ blk.block.block_args.kernel_size = 5
    /\ blk.block.block_args.expand_ratio = 6
    /\ blk.block.has_se
    /\ blk.block.image_size = <<224>>
    /\ blk.inputs.h = 2 /\ blk.inputs.w = 4
    /\ blk.result.t.err = ""
    /\ blk.result.t.shape.h = 1 /\ blk.result.t.shape.w = 2
    /\ blk.result.t.shape.c = blk.block.block_args.output_filters

\* C8 (as stated): forward adds the input iff id_skip, stride 1 and equal
\* filters, otherwise returns the projected branch alone; whenever it adds,
\* the stochastic-depth gate was applied to the branch just before.
C8_SkipAlwaysGated ==
    Returned =>
        /\ Has("add_inputs") <=> ArgsEligible
        /\ ~ArgsEligible => LastOps(1) = <<"project_conv">>
        /\ Has("add_inputs") => LastOps(2) = <<"drop_connect", "add_inputs">>

\* C8 (amended): the addition happens iff id_skip, stride 1 and equal
\* filters, otherwise the projected branch is returned alone; when it
\* happens and a non-zero drop-connect rate was passed, the gate is applied
\* to the branch just before the addition; when the rate is None or 0 the
\* input is added to the ungated branch.
C8_SkipGatedWhenRate ==
    Returned =>
        /\ Has("add_inputs") <=> ArgsEligible
        /\ ~ArgsEligible => LastOps(1) = <<"project_conv">> /\ ~Has("drop_connect")
        /\ (Has("add_inputs") /\ Truthy(blk.rate)) =>
              LastOps(3) = <<"project_conv", "drop_connect", "add_inputs">>
        /\ (Has("add_inputs") /\ ~Truthy(blk.rate)) =>
              LastOps(2) = <<"project_conv", "add_inputs">>

C8_Witness ==
    /\ Returned
    /\ ArgsEligible
    /\ blk.rate = <<2, 10>>
    /\ LastOps(2) = <<"drop_connect", "add_inputs">>
    /\ blk.result.t.shape = blk.inputs

\* C10 (as stated): a block has a squeeze-excite path exactly when se_ratio
\* is set and in (0,1], and the path reduces input_filters * expand_ratio
\* channels to max(1, round(input_filters * se_ratio)) and expands back.
C10_SqueezeRounds ==
    blk.phase = "built" =>
        LET a == blk.block.block_args
        IN  /\ blk.block.has_se <=>
                 (IsSet(a.se_ratio) /\ 0 < a.se_ratio[1] /\ a.se_ratio[1] <= a.se_ratio[2])
            /\ blk.block.has_se =>
                 /\ blk.block.se_reduce[1].in_channels = a.input_filters * a.expand_ratio
                 /\ blk.block.se_reduce[1].out_channels
                       = Max(1, RoundHalfEven(a.input_filters * a.se_ratio[1], a.se_ratio[2]))

\* C10 (amended): the same with the reduced width max(1, floor(input_filters
\* * se_ratio)): the product is truncated, not rounded.
C10_SqueezeTruncates ==
    blk.phase = "built" =>
        LET a == blk.block.block_args
            squeezed == CHOOSE m \in 1..(a.input_filters + 1) :
                           \/ m = 1 /\ a.input_filters * a.se_ratio[1] < a.se_ratio[2]
                           \/ /\ m * a.se_ratio[2] <= a.input_filters * a.se_ratio[1]
                              /\ a.input_filters * a.se_ratio[1] < (m + 1) * a.se_ratio[2]
        IN  /\ blk.block.has_se <=>
                 (IsSet(a.se_ratio) /\ 0 < a.se_ratio[1] /\ a.se_ratio[1] <= a.se_ratio[2])
            /\ ~blk.block.has_se =>
                 blk.block.se_reduce = None /\ blk.block.se_expand = None
            /\ blk.block.has_se =>
                 /\ blk.block.se_reduce[1] =
                       [in_channels  |-> a.input_filters * a.expand_ratio,
                        out_channels |-> squeezed]
                 /\ blk.block.se_expand[1] =
                       [in_channels  |-> squeezed,
                        out_channels |-> a.input_filters * a.expand_ratio]

C10_Witness ==
    /\ blk.phase = "built"
    /\ blk.block.block_args.input_filters = 3
    /\ blk.block.block_args.se_ratio = <<2, 4>>
    /\ blk.block.block_args.expand_ratio = 6
    /\ blk.block.has_se
    /\ blk.block.se_reduce[1] = [in_channels |-> 18, out_channels |-> 1]

----------------------------------------------------------------------------
(* EfficientNet.__init__ *)

\* lines 141-145: the stage's record with filters and repeats rescaled
Rescaled(block_args, gp) ==
    [block_args EXCEPT
        !.input_filters  = round_filters(block_args.input_filters, gp),
        !.output_filters = round_filters(block_args.output_filters, gp),
        !.num_repeat     = round_repeats(block_args.num_repeat, gp)]

\* The blocks of one stage with every repeat built from the first record.
StageBlocksNoReplace(block_args, gp) ==
    LET a1 == Rescaled(block_args, gp)
    IN  [r \in 1..Max(1, a1.num_repeat) |-> MBConvBlockInit(a1, gp)]

\* lines 138-152: the blocks one stage of the block list contributes
StageBlocks(block_args, gp) ==
    LET a1 == Rescaled(block_args, gp)
        a2 == IF a1.num_repeat > 1
              THEN [a1 EXCEPT !.input_filters = a1.output_filters, !.stride = 1]
              ELSE a1
    IN  <<MBConvBlockInit(a1, gp)>>
        \o [r \in 1..(a1.num_repeat - 1) |-> MBConvBlockInit(a2, gp)]

RECURSIVE BuildBlocks(_, _, _)
BuildBlocks(bargs, gp, j) ==
    IF j = 0 THEN <<>>
    ELSE BuildBlocks(bargs, gp, j - 1) \o StageBlocks(bargs[j], gp)

\* EfficientNet.__init__(blocks_args, global_params, conv_type); an empty
\* block list fails the assertion of line 118 and no instance results.
EfficientNetInit(bargs, gp) ==
    IF Len(bargs) = 0
    THEN [built |-> FALSE, err |-> "AssertionError"]
    ELSE [ built          |-> TRUE,
           global_params  |-> gp,
           blocks_args    |-> bargs,
           conv_stem      |-> [in_channels |-> 3,
                               out_channels |-> round_filters(32, gp),
                               kernel_size |-> 3, stride |-> 2],
           blocks         |-> BuildBlocks(bargs, gp, Len(bargs)),
           conv_head      |-> [in_channels |->
                                  Rescaled(bargs[Len(bargs)], gp).output_filters,
                               out_channels |-> round_filters(1280, gp),
                               kernel_size |-> 1, stride |-> 1],
           swish          |-> "MemoryEfficientSwish" ]

StageChoices ==
    { BlockArgs(r, 3, s, 6, 16, o, <<1, 4>>, TRUE) :
        r \in 1..MaxRepeat, s \in Strides, o \in {16, 24} }

RECURSIVE SeqsUpTo(_, _)
SeqsUpTo(S, n) ==
    IF n = 0 THEN {<<>>}
    ELSE LET shorter == SeqsUpTo(S, n - 1)
         IN  shorter \cup {Append(q, x) : q \in {p \in shorter : Len(p) = n - 1}, x \in S}

WidthChoices == {None, <<10, 10>>, <<14, 10>>}
DepthChoices == {None, <<11, 10>>, <<22, 10>>}

InitBuild ==
    /\ blocks_args \in SeqsUpTo(StageChoices, MaxStages)
    /\ \E wc \in WidthChoices, dc \in DepthChoices :
          global_params = <<GlobalParams(wc, dc, None, <<2, 10>>)>>
    /\ net = NoNet
    /\ RestIdleBut("build")

\* net = EfficientNet(blocks_args, global_params, conv_type)
Construct ==
    /\ net = NoNet
    /\ global_params # None
    /\ net' = EfficientNetInit(blocks_args, global_params[1])
    /\ UNCHANGED <<call, blk, blocks_args, global_params, fwd, outB, directCalls>>

NextBuild == Construct

SpecBuild == InitBuild /\ [][NextBuild]_vars

\* Number of blocks built for stage j, and for the stages before it.
Repeats(j) == round_repeats(blocks_args[j].num_repeat, global_params[1])

RECURSIVE Before(_)
Before(j) == IF j = 1 THEN 0 ELSE Before(j - 1) + Repeats(j - 1)

\* C9: construction builds, stage by stage, round_repeats(num_repeat) blocks:
\* the first with the declared stride and the rescaled input filters, the
\* others with stride 1 and the rescaled output filters as input; all with
\* the rescaled output filters; the caller's list is kept as it was.
C9_StagesExpand ==
    net.built =>
        LET gp == global_params[1]
            n  == Len(blocks_args)
        IN  /\ Len(net.blocks) = Before(n) + Repeats(n)
            /\ net.blocks_args = blocks_args
            /\ \A j \in 1..n : \A r \in 1..Repeats(j) :
                  LET a == net.blocks[Before(j) + r].block_args
                  IN  /\ a.output_filters = round_filters(blocks_args[j].output_filters, gp)
                      /\ a.stride = IF r = 1 THEN blocks_args[j].stride ELSE 1
                      /\ a.input_filters =
                            IF r = 1
                            THEN round_filters(blocks_args[j].input_filters, gp)
                            ELSE round_filters(blocks_args[j].output_filters, gp)
                      /\ a.kernel_size = blocks_args[j].kernel_size
                      /\ a.expand_ratio = blocks_args[j].expand_ratio

C9_Witness ==
    /\ net.built
    /\ Len(blocks_args) = 2
    /\ blocks_args[1].num_repeat = 2
    /\ blocks_args[1].stride = 2
    /\ blocks_args[1].output_filters = 24
    /\ global_params[1].depth_coefficient = <<11, 10>>
    /\ global_params[1].width_coefficient = <<14, 10>>
    /\ Len(net.blocks) >= 4
    /\ net.blocks[1].block_args.stride = 2
    /\ net.blocks[1].block_args.input_filters = 24
    /\ net.blocks[3].block_args.stride = 1
    /\ net.blocks[3].block_args.input_filters = 32

----------------------------------------------------------------------------
(* EfficientNet.set_swish and EfficientNet.extract_features / forward *)

\* set_swish that switches the backbone's own unit only.
EfficientNetSetSwishOwnOnly(model, memory_efficient) ==
    [model EXCEPT !.swish = IF memory_efficient THEN "MemoryEfficientSwish" ELSE "Swish"]

\* EfficientNet.set_swish(memory_efficient), lines 166-170
EfficientNetSetSwish(model, memory_efficient) ==
    [model EXCEPT
        !.swish  = IF memory_efficient THEN "MemoryEfficientSwish" ELSE "Swish",
        !.blocks = [i \in 1..Len(model.blocks) |->
                       MBConvBlockSetSwish(model.blocks[i], memory_efficient)]]

\* Decoder constants of extract_features
Width2x == 512
Width4x == 256
Width8x == 128
Width16x == 64
WidthFinal == 64
LikelihoodChannels == 2
Offset2x == 5
Offset4x == 11
Offset8x == 13
Offset16x == 15

\* The stem convolution with stride 1.
ConvStemUnitStride(model, inputs) ==
    Conv2d(Ok(inputs), model.conv_stem.in_channels, model.conv_stem.out_channels,
           model.conv_stem.kernel_size, 1, model.global_params.image_size)

\* line 177: self._conv_stem(inputs)
ConvStem(model, inputs) ==
    Conv2d(Ok(inputs), model.conv_stem.in_channels, model.conv_stem.out_channels,
           model.conv_stem.kernel_size, model.conv_stem.stride,
           model.global_params.image_size)

\* line 187: skipconnection[idx+1] = x
CacheKey(idx) == idx + 1

\* The key one position too deep.
SkipKeyOffByOne(index, offset) == index - offset + 1

\* lines 204, 211, 218, 225: skipconnection[index - offset]
SkipKey(index, offset) == index - offset

\* lines 183-185: the block's drop-connect rate, scaled by its depth
BlockDropRate(model, idx) ==
    LET rate == model.global_params.drop_connect_rate
    IN  IF Truthy(rate)
        THEN <<rate[1] * idx, rate[2] * Len(model.blocks)>>
        ELSE rate

Abort(fr, e) == [fr EXCEPT !.pc = "error", !.err = e]

CanCall == net.built /\ fwd.pc \in {"idle", "done", "error"}

\* forward(inputs), lines 175-178: a fresh cache, the stem, cache position 0
FwdStemOn(sizes) ==
    /\ CanCall
    /\ \E h \in sizes, w \in sizes :
          LET inputs == [n |-> 1, c |-> 3, h |-> h, w |-> w]
              x  == ConvStem(net, inputs)
              fr == [NoFwd EXCEPT !.inputs = <<inputs>>, !.x = <<x>>,
                                  !.modes = {net.swish}]
          IN  fwd' = IF x.err # "" THEN Abort(fr, x.err)
                     ELSE [fr EXCEPT !.pc = "blocks",
                                     !.skipconnection = (0 :> x.shape),
                                     !.writes = <<0>>]
    /\ UNCHANGED <<call, blk, blocks_args, global_params, net, outB, directCalls>>

\* lines 182-188: one iteration of the loop over the blocks
FwdBlock ==
    /\ fwd.pc = "blocks"
    /\ LET block == net.blocks[fwd.idx + 1]
           r == MBConvBlockForward(block, fwd.x[1].shape, BlockDropRate(net, fwd.idx))
           fr == [fwd EXCEPT !.modes = @ \cup {block.swish}]
       IN  fwd' = IF r.t.err # "" THEN Abort(fr, r.t.err)
                  ELSE [fr EXCEPT
                          !.x = <<r.t>>,
                          !.skipconnection = @ @@ (CacheKey(fwd.idx) :> r.t.shape),
                          !.writes = Append(@, CacheKey(fwd.idx)),
                          !.idx = @ + 1,
                          !.index = @ + 1,
                          !.pc = IF fwd.idx + 1 = Len(net.blocks) THEN "head"
                                 ELSE "blocks"]
    /\ UNCHANGED <<call, blk, blocks_args, global_params, net, outB, directCalls>>

\* line 191: the head convolution
FwdHead ==
    /\ fwd.pc = "head"
    /\ LET x == Conv2d(fwd.x[1], net.conv_head.in_channels, net.conv_head.out_channels,
                       net.conv_head.kernel_size, net.conv_head.stride,
                       net.global_params.image_size)
       IN  fwd' = IF x.err # "" THEN Abort(fwd, x.err)
                  ELSE [fwd EXCEPT !.x = <<x>>, !.pc = "dec1"]
    /\ UNCHANGED <<call, blk, blocks_args, global_params, net, outB, directCalls>>

\* A convolution created inside the call on the channel count of its input
\* (Conv2d(t.shape[1], out, kernel_size=k, stride=1)) and applied to it.
FreshConv(t, out, k) ==
    IF t.err # "" THEN t
    ELSE Conv2d(t, t.shape.c, out, k, 1, net.global_params.image_size)

\* A read of the cache: a position never written raises KeyError.
Lookup(fr, key) ==
    IF key \in DOMAIN fr.skipconnection THEN Ok(fr.skipconnection[key])
    ELSE [err |-> "KeyError", shape |-> None]

\* The frame after reading position key and concatenating what was read
\* (and the previous likelihood map, if any) to the decoder tensor d.
Fuse(fr, d, key) ==
    LET got == Lookup(fr, key)
        fr1 == [fr EXCEPT !.reads = Append(@, key)]
    IN  IF got.err # "" THEN [joined |-> got, fr |-> fr1]
        ELSE [joined |-> IF fr.likelihood = None THEN Cat2(d, got)
                         ELSE Cat3(d, got, fr.likelihood[1]),
              fr |-> [fr1 EXCEPT !.cats = Append(@, <<d.shape, got.shape>>)]]

\* One decoder stage that upsamples: read and concatenate, convolve to
\* `width` channels with a k x k kernel, activate, upsample by 2, and emit
\* the likelihood map of that scale.
UpStage(fr, d, offset, width, k, next) ==
    LET f == Fuse(fr, d, SkipKey(fr.index, offset))
    IN  IF f.joined.err # "" THEN Abort(f.fr, f.joined.err)
        ELSE LET up == Interpolate2x(FreshConv(f.joined, width, k))
             IN  [f.fr EXCEPT !.d = <<up>>,
                              !.likelihood = <<FreshConv(up, LikelihoodChannels, 3)>>,
                              !.modes = @ \cup {net.swish},
                              !.pc = next]

\* The states of the random number generator that initialises the weights
\* of a convolution created during the call.
Seeds == {1, 2}

\* lines 196-209: conv1a, upsample, concatenate with the cache at index-5,
\* conv1b, upsample, conv1c.  The decoder's convolutions are created here,
\* inside the call, with freshly initialised weights.
FwdDec1 ==
    /\ fwd.pc = "dec1"
    /\ \E seed \in Seeds :
          LET d_2x == Interpolate2x(FreshConv(fwd.x[1], Width2x, 3))
              fr == [fwd EXCEPT !.rng = <<seed>>, !.modes = @ \cup {net.swish}]
          IN  fwd' = UpStage(fr, d_2x, Offset2x, Width4x, 3, "dec2")
    /\ UNCHANGED <<call, blk, blocks_args, global_params, net, outB, directCalls>>

\* lines 211-216: concatenate with the cache at index-11, conv2a, upsample, conv2b
FwdDec2 ==
    /\ fwd.pc = "dec2"
    /\ fwd' = UpStage(fwd, fwd.d[1], Offset4x, Width8x, 3, "dec3")
    /\ UNCHANGED <<call, blk, blocks_args, global_params, net, outB, directCalls>>

\* lines 218-223: concatenate with the cache at index-13, conv3a, upsample, conv3b
FwdDec3 ==
    /\ fwd.pc = "dec3"
    /\ fwd' = UpStage(fwd, fwd.d[1], Offset8x, Width16x, 5, "dec4")
    /\ UNCHANGED <<call, blk, blocks_args, global_params, net, outB, directCalls>>

\* lines 225-232: concatenate with the cache at index-15, conv4a, conv4b,
\* return.  The value returned is a function of the input, the stored
\* parameters and the weights drawn for the convolutions created in the call.
FwdDec4 ==
    /\ fwd.pc = "dec4"
    /\ LET f == Fuse(fwd, fwd.d[1], SkipKey(fwd.index, Offset16x))
       IN  fwd' = IF f.joined.err # "" THEN Abort(f.fr, f.joined.err)
                  ELSE LET out == FreshConv(FreshConv(f.joined, WidthFinal, 5),
                                            LikelihoodChannels, 3)
                       IN  [f.fr EXCEPT
                              !.modes = @ \cup {net.swish},
                              !.pc = "done",
                              !.output = <<[shape |-> out.shape,
                                            value |-> [inputs |-> fwd.inputs[1],
                                                       decoder_init |-> fwd.rng[1]]]>>]
    /\ UNCHANGED <<call, blk, blocks_args, global_params, net, outB, directCalls>>

\* model.set_swish(memory_efficient), between forward calls
SetSwish ==
    /\ CanCall
    /\ \E memory_efficient \in BOOLEAN :
          net' = EfficientNetSetSwish(net, memory_efficient)
    /\ outB' = IF fwd.pc = "done" THEN [set |-> TRUE, inputs |-> fwd.inputs[1],
                                         output |-> fwd.output[1]]
               ELSE outB
    /\ UNCHANGED <<call, blk, blocks_args, global_params, fwd, directCalls>>

\* model._blocks[i].set_swish(memory_efficient), called on one block
BlockSetSwish ==
    /\ CanCall
    /\ directCalls < MaxDirect
    /\ \E i \in 1..Len(net.blocks), memory_efficient \in BOOLEAN :
          net' = [net EXCEPT !.blocks[i] = MBConvBlockSetSwish(@, memory_efficient)]
    /\ directCalls' = directCalls + 1
    /\ UNCHANGED <<call, blk, blocks_args, global_params, fwd, outB>>

\* The block list of efficientnet-b0:
\* repeats 1,2,2,3,3,4,1 with strides 1,2,2,2,1,2,1
B0BlocksArgs ==
    << BlockArgs(1, 3, 1, 1, 32, 16, <<1, 4>>, TRUE),
       BlockArgs(2, 3, 2, 6, 16, 24, <<1, 4>>, TRUE),
       BlockArgs(2, 5, 2, 6, 24, 40, <<1, 4>>, TRUE),
       BlockArgs(3, 3, 2, 6, 40, 80, <<1, 4>>, TRUE),
       BlockArgs(3, 5, 1, 6, 80, 112, <<1, 4>>, TRUE),
       BlockArgs(4, 5, 2, 6, 112, 192, <<1, 4>>, TRUE),
       BlockArgs(1, 3, 1, 6, 192, 320, <<1, 4>>, TRUE) >>

\* get_model_params('efficientnet-b0', None): coefficients 1.0 / 1.0,
\* resolution 224, drop-connect rate 0.2
B0GlobalParams == GlobalParams(<<10, 10>>, <<10, 10>>, <<224>>, <<2, 10>>)

ForwardSizes == {16 * k : k \in 1..MaxScale} \cup {224}
SwishSizes == {32, 64}

\* Backbones for the forward pass: the first stages of the b0 block list,
\* at depth coefficient 1.0 or 1.1, with static or dynamic padding.
InitForward ==
    /\ \E p \in 1..Len(B0BlocksArgs), dc \in {<<10, 10>>, <<11, 10>>},
          im \in ImageSizes :
          /\ blocks_args = SubSeq(B0BlocksArgs, 1, p)
          /\ global_params = <<GlobalParams(<<10, 10>>, dc, im, <<2, 10>>)>>
    /\ net = EfficientNetInit(blocks_args, global_params[1])
    /\ fwd = NoFwd
    /\ RestIdleBut("net")

FwdStem == FwdStemOn(ForwardSizes)

NextForward ==
    FwdStem \/ FwdBlock \/ FwdHead \/ FwdDec1 \/ FwdDec2 \/ FwdDec3 \/ FwdDec4

SpecForward == InitForward /\ [][NextForward]_vars

\* The backbone of EfficientNet.from_name('efficientnet-b0', conv_type)
InitSwish ==
    /\ blocks_args = B0BlocksArgs
    /\ global_params = <<B0GlobalParams>>
    /\ net = EfficientNetInit(blocks_args, global_params[1])
    /\ fwd = NoFwd
    /\ RestIdleBut("net")

FwdStemSwish == FwdStemOn(SwishSizes)

NextSwish ==
    \/ FwdStemSwish \/ FwdBlock \/ FwdHead \/ FwdDec1 \/ FwdDec2 \/ FwdDec3 \/ FwdDec4
    \/ SetSwish \/ BlockSetSwish

SpecSwish == InitSwish /\ [][NextSwish]_vars

----------------------------------------------------------------------------
(* Claims about the forward pass *)

IsB0 == net.built /\ net.blocks_args = B0BlocksArgs /\ net.global_params = B0GlobalParams

Ended == fwd.pc \in {"done", "error"}

NumBlocks == Len(net.blocks)

WritesInOrder ==
    /\ fwd.writes = [i \in 1..Len(fwd.writes) |-> i - 1]
    /\ DOMAIN fwd.skipconnection = {fwd.writes[i] : i \in 1..Len(fwd.writes)}
    /\ fwd.pc \in {"blocks", "head"} => Len(fwd.writes) = fwd.idx + 1
    /\ fwd.pc \in {"head", "dec1", "dec2", "dec3", "dec4", "done"} =>
          Len(fwd.writes) = NumBlocks + 1

DecoderKeys == <<NumBlocks - 5, NumBlocks - 11, NumBlocks - 13, NumBlocks - 15>>

ReadsWritten ==
    /\ \A i \in 1..Len(fwd.reads) :
          /\ fwd.reads[i] = DecoderKeys[i]
          /\ fwd.reads[i] \in 0..NumBlocks
          /\ fwd.reads[i] \in DOMAIN fwd.skipconnection
    /\ fwd.err # "KeyError"

\* C4: for every backbone the constructor accepts, the cache is written at
\* 0 by the stem and at i+1 by block i, once each and in order, and every
\* position the decoder reads (N-5, N-11, N-13, N-15) was written in the
\* same pass and lies in 0..N.
C4_EveryBackboneReadsWritten ==
    net.built => (WritesInOrder /\ ReadsWritten)

\* What the code does about C4: the cache is written as stated for every
\* backbone; the positions the decoder reads were written and lie in 0..N
\* for every backbone of at least 15 blocks; with fewer than 15 blocks the
\* pass never returns, and a read of a position never written is a read of
\* a negative position and ends the pass with KeyError.
ReadsWrittenFrom15Blocks ==
    net.built =>
        /\ WritesInOrder
        /\ NumBlocks >= 15 => ReadsWritten
        /\ NumBlocks < 15 => fwd.pc # "done"
        /\ fwd.err = "KeyError" =>
              /\ fwd.reads[Len(fwd.reads)] < 0
              /\ fwd.reads[Len(fwd.reads)] = DecoderKeys[Len(fwd.reads)]
              /\ \A i \in 1..(Len(fwd.reads) - 1) :
                    fwd.reads[i] \in DOMAIN fwd.skipconnection

Reaches15Blocks ==
    /\ net.built
    /\ NumBlocks = 15
    /\ fwd.pc = "done"
    /\ fwd.reads = <<10, 4, 2, 0>>
    /\ Len(fwd.writes) = 16

\* C7: for the b0 configuration and inputs whose height and width are
\* multiples of 32, the four concatenations join a decoder tensor and the
\* cached output 5, 11, 13 and 15 positions back of equal height and width,
\* and no shape mismatch ends the pass.
C7_B0ConcatenationsAgree ==
    (net.built /\ net.blocks_args = B0BlocksArgs
       /\ net.global_params.depth_coefficient = <<10, 10>>
       /\ fwd.pc # "idle" /\ fwd.inputs[1].h % 32 = 0 /\ fwd.inputs[1].w % 32 = 0) =>
        /\ fwd.err = ""
        /\ \A i \in 1..Len(fwd.cats) :
              /\ fwd.cats[i][1].h = fwd.cats[i][2].h
              /\ fwd.cats[i][1].w = fwd.cats[i][2].w
              /\ fwd.cats[i][2] = fwd.skipconnection[DecoderKeys[i]]
        /\ fwd.pc = "done" => Len(fwd.cats) = 4

C7_Witness ==
    /\ IsB0
    /\ fwd.pc = "done"
    /\ fwd.inputs[1].h = 32 /\ fwd.inputs[1].w = 224
    /\ Len(fwd.cats) = 4
    /\ fwd.cats[4][2] = fwd.skipconnection[1]
    /\ fwd.cats[4][1].h = 16 /\ fwd.cats[4][1].w = 112

----------------------------------------------------------------------------
(* Claims about the activation mode *)

AllSameMode == \A i \in 1..Len(net.blocks) : net.blocks[i].swish = net.swish

\* C2: with the same input, a forward pass made before set_swish and one
\* made after it return the same output.
C2_SameOutputAcrossSetSwish ==
    (fwd.pc = "done" /\ outB # NoOut /\ directCalls = 0
       /\ outB.inputs = fwd.inputs[1]) =>
        fwd.output[1] = outB.output

\* C3 (as stated): after construction and any sequence of
\* EfficientNet.set_swish, MBConvBlock.set_swish and forward, the backbone's
\* unit and every block's unit are in one mode, and no forward pass sees two.
C3_NeverMixed ==
    net.built => (AllSameMode /\ Cardinality(fwd.modes) <= 1)

\* C3 (amended): the same after construction and any sequence of
\* EfficientNet.set_swish and forward; a MBConvBlock.set_swish call made
\* directly on one block can leave the model mixed.
C3_NeverMixedByModelSetSwish ==
    (net.built /\ directCalls = 0) => (AllSameMode /\ Cardinality(fwd.modes) <= 1)

C3_Witness ==
    /\ net.built
    /\ directCalls = 0
    /\ outB # NoOut
    /\ net.swish = "Swish"
    /\ fwd.pc = "done"
    /\ fwd.modes = {"Swish"}

----------------------------------------------------------------------------
(* The class methods: from_name, from_pretrained, get_image_size *)

\* str(i) for i >= 0, as the sequence of its decimal digits
RECURSIVE Str(_)
Str(i) == IF i < 10 THEN <<i>> ELSE Str(i \div 10) \o <<i % 10>>

\* 'efficientnet-b' + suffix
Name(prefix, suffix) == [prefix |-> prefix, suffix |-> suffix]

\* The list of valid names one short: range(8).
ValidModelsRange8 == {Name("efficientnet-b", Str(i)) : i \in 0..7}

\* line 274: ['efficientnet-b' + str(i) for i in range(9)]
ValidModels == {Name("efficientnet-b", Str(i)) : i \in 0..(9 - 1)}

\* _check_model_name_is_valid(model_name): the steps taken so far, and the
\* error raised, if any
CheckModelName(model_name) ==
    [ trace  |-> <<"_check_model_name_is_valid">>,
      raised |-> IF model_name \notin ValidModels THEN "ValueError" ELSE "" ]

Then(r, step) == IF r.raised # "" THEN r ELSE [r EXCEPT !.trace = Append(@, step)]

\* from_name(model_name, conv_type, override_params), lines 250-253
FromNameSteps(model_name) ==
    Then(Then(CheckModelName(model_name), "get_model_params"), "EfficientNet.__init__")

\* from_pretrained(model_name, conv_type, ..., in_channels), lines 256-263
FromPretrainedSteps(model_name, in_channels) ==
    LET loaded == Then(FromNameSteps(model_name), "load_pretrained_weights")
    IN  IF in_channels # 3 THEN Then(loaded, "replace_conv_stem") ELSE loaded

\* get_image_size(model_name), lines 266-269
GetImageSizeSteps(model_name) ==
    Then(CheckModelName(model_name), "efficientnet_params")

Prefixes == {"efficientnet-b", "efficientnet-", "EfficientNet-b"}
Digits == {0, 1, 8, 9}
ModelNames == {Name(p, s) : p \in Prefixes, s \in SeqsUpTo(Digits, MaxSuffix)}

InitNames ==
    /\ call = NoCall
    /\ RestIdleBut("call")

Called(entry, model_name, r) ==
    [entry |-> entry, model_name |-> model_name, trace |-> r.trace, raised |-> r.raised]

\* EfficientNet.from_name(model_name, conv_type)
FromName ==
    /\ \E model_name \in ModelNames :
          call' = Called("from_name", model_name, FromNameSteps(model_name))
    /\ UNCHANGED <<blk, blocks_args, global_params, net, fwd, outB, directCalls>>

\* EfficientNet.from_pretrained(model_name, conv_type, in_channels=in_channels)
FromPretrained ==
    /\ \E model_name \in ModelNames, in_channels \in {1, 3} :
          call' = Called("from_pretrained", model_name,
                         FromPretrainedSteps(model_name, in_channels))
    /\ UNCHANGED <<blk, blocks_args, global_params, net, fwd, outB, directCalls>>

\* EfficientNet.get_image_size(model_name)
GetImageSize ==
    /\ \E model_name \in ModelNames :
          call' = Called("get_image_size", model_name, GetImageSizeSteps(model_name))
    /\ UNCHANGED <<blk, blocks_args, global_params, net, fwd, outB, directCalls>>

NextNames == FromName \/ FromPretrained \/ GetImageSize

SpecNames == InitNames /\ [][NextNames]_vars

\* One of efficientnet-b0 .. efficientnet-b8
IsNamed ==
    /\ call.model_name.prefix = "efficientnet-b"
    /\ Len(call.model_name.suffix) = 1
    /\ call.model_name.suffix[1] \in 0..8

\* C5: from_name, from_pretrained and get_image_size raise ValueError for
\* every name that is not one of efficientnet-b0 .. efficientnet-b8, before
\* anything else is done; for each of the nine names the check passes.
C5_NameCheckedFirst ==
    call # NoCall =>
        /\ call.trace[1] = "_check_model_name_is_valid"
        /\ ~IsNamed => call.raised = "ValueError" /\ Len(call.trace) = 1
        /\ IsNamed =>
              /\ call.raised = ""
              /\ Len(call.trace) >= 2
              /\ call.trace[2] = IF call.entry = "get_image_size"
                                 THEN "efficientnet_params" ELSE "get_model_params"

C5_Witness ==
    /\ call # NoCall
    /\ call.entry = "from_pretrained"
    /\ call.model_name = Name("efficientnet-b", <<9>>)
    /\ call.raised = "ValueError"
    /\ call.trace = <<"_check_model_name_is_valid">>

=============================================================================
